---- MODULE Spec2Model ----
(***************************************************************************)
(* A model of app.py: the Streamlit page that downloads the audio of a    *)
(* video with yt-dlp, optionally transcribes it with Whisper and shows    *)
(* the transcript.  One run is one execution of main() in which the       *)
(* "Download & Process" button is pressed.  Streamlit executes each       *)
(* browser session's script in a thread of its own; all sessions share    *)
(* the working directory "downloads".                                     *)
(***************************************************************************)
EXTENDS Integers, Sequences, FiniteSets, TLC

VARIABLES
    sessions,            \* the browser sessions that exist
    pc,                  \* pc[s]: where session s's run stands in main()
    url,                 \* url[s]: the text input, a sequence of characters
    cookie_file,         \* cookie_file[s]: the upload, [present, bytes]
    save_audio,          \* the "Save MP3" checkbox
    do_transcribe,       \* the "Transcribe Audio" checkbox
    include_timestamps,  \* the "Include Timestamps" checkbox
    cookie_path,         \* cookie_path[s]: NoPath or CookieTemp
    progress_bar,        \* progress_bar[s]: value shown by st.progress
    status_placeholder,  \* status_placeholder[s]: message in st.empty()
    error_message,       \* error_message[s]: what st.error showed
    progress_reported,   \* whether the hook's last call reached lines 62-63 or 65-66
    result,              \* result[s]: the segments model.transcribe returned
    transcript_text,     \* transcript_text[s]: the assembled transcript
    transcript_output,   \* transcript_output[s]: text area and download button
    calls,               \* calls[s]: invocations of the external libraries
    disk_cookie,         \* downloads/cookies_temp.txt: [exists, bytes]
    disk_mp3             \* whether the audio artifact exists on disk

vars == << sessions, pc, url, cookie_file, save_audio, do_transcribe,
           include_timestamps, cookie_path, progress_bar, status_placeholder,
           error_message, progress_reported, result, transcript_text,
           transcript_output, calls, disk_cookie, disk_mp3 >>

inputs == << url, cookie_file, save_audio, do_transcribe, include_timestamps >>
ui == << progress_bar, status_placeholder, error_message, transcript_output >>
disk == << disk_cookie, disk_mp3 >>

----------------------------------------------------------------------------
(* Bounds of the model *)

MaxBytes == 2       \* progress events carry byte counts 0..MaxBytes (+1 downloaded)
MaxSegs == 2        \* the transcriber returns at most MaxSegs segments

----------------------------------------------------------------------------
(* Strings are sequences of one-character strings. *)

Whitespace == {" ", "\t", "\n", "\r"}

RECURSIVE lstrip(_)
lstrip(str) ==
    IF str = << >> THEN << >>
    ELSE IF Head(str) \in Whitespace THEN lstrip(Tail(str)) ELSE str

RECURSIVE rstrip(_)
rstrip(str) ==
    IF str = << >> THEN << >>
    ELSE IF str[Len(str)] \in Whitespace
         THEN rstrip(SubSeq(str, 1, Len(str) - 1)) ELSE str

\* str.strip(): surrounding whitespace removed, the inside untouched
strip_WhitespaceKept(str) == str

strip(str) == rstrip(lstrip(str))

DigitChars == << "0", "1", "2", "3", "4", "5", "6", "7", "8", "9" >>

RECURSIVE Decimal(_)
Decimal(n) ==
    IF n < 10 THEN << DigitChars[n + 1] >>
    ELSE Decimal(n \div 10) \o << DigitChars[(n % 10) + 1] >>

\* f"{n:02d}": decimal digits, zero-padded to a minimum width of 2
Format02d(n) == IF n < 10 THEN << "0" >> \o Decimal(n) ELSE Decimal(n)

----------------------------------------------------------------------------
(* Transcript formatting.  A segment is [start, text]; start is the       *)
(* float seg["start"] in tenths of a second, so 25 stands for 2.5 s.      *)

\* mm = int(sec // 60)
Minutes(tenths) == (tenths \div 10) \div 60

\* ss = int(sec % 60)
Seconds(tenths) == (tenths % 600) \div 10

format_timestamp(tenths) ==
    << "[" >> \o Format02d(Minutes(tenths)) \o << ":" >>
              \o Format02d(Seconds(tenths)) \o << "]" >>

SegmentLine(seg, stamps) ==
    IF stamps
    THEN format_timestamp(seg.start) \o << " " >> \o strip(seg.text)
    ELSE strip(seg.text)

RECURSIVE join_TrailingNewline(_)
join_TrailingNewline(lines) ==
    IF lines = << >> THEN << >>
    ELSE Head(lines) \o << "\n" >> \o join_TrailingNewline(Tail(lines))

\* "\n".join(lines)
RECURSIVE join(_)
join(lines) ==
    IF lines = << >> THEN << >>
    ELSE IF Len(lines) = 1 THEN lines[1]
    ELSE Head(lines) \o << "\n" >> \o join(Tail(lines))

Assemble(segments, stamps) ==
    join([i \in 1..Len(segments) |-> SegmentLine(segments[i], stamps)])

----------------------------------------------------------------------------
(* The cookie upload.  cookie_file.read() is a byte string; it is decoded *)
(* as UTF-8 and written to a file opened with encoding='utf-8'.  The      *)
(* one- and two-byte forms of UTF-8 are modelled.                         *)

IsAscii(b) == b >= 0 /\ b < 128
IsLead2(b) == b >= 194 /\ b <= 223
IsCont(b) == b >= 128 /\ b <= 191

\* bytes.decode('utf-8'): [ok, text], text a sequence of code points
RECURSIVE Utf8Decode(_)
Utf8Decode(bytes) ==
    IF bytes = << >> THEN [ok |-> TRUE, text |-> << >>]
    ELSE IF IsAscii(bytes[1])
         THEN LET rest == Utf8Decode(Tail(bytes))
              IN  [ok |-> rest.ok, text |-> << bytes[1] >> \o rest.text]
    ELSE IF IsLead2(bytes[1]) /\ Len(bytes) >= 2 /\ IsCont(bytes[2])
         THEN LET rest == Utf8Decode(SubSeq(bytes, 3, Len(bytes)))
              IN  [ok |-> rest.ok,
                   text |-> << (bytes[1] - 192) * 64 + (bytes[2] - 128) >>
                            \o rest.text]
    ELSE [ok |-> FALSE, text |-> << >>]

\* what a text file opened with encoding='utf-8' holds after f.write(text)
RECURSIVE Utf8Encode(_)
Utf8Encode(text) ==
    IF text = << >> THEN << >>
    ELSE IF text[1] < 128
         THEN << text[1] >> \o Utf8Encode(Tail(text))
         ELSE << 192 + (text[1] \div 64), 128 + (text[1] % 64) >>
              \o Utf8Encode(Tail(text))

NoPath == "None"
CookieTemp == "downloads/cookies_temp.txt"

NoFile == [exists |-> FALSE, bytes |-> << >>]
FileWith(bytes) == [exists |-> TRUE, bytes |-> bytes]

NoUpload == [present |-> FALSE, bytes |-> << >>]
Upload(bytes) == [present |-> TRUE, bytes |-> bytes]

StagedCookie_Truncated(bytes) == FileWith(<< >>)

\* lines 48-49 when the decode succeeds: the file holds the payload
StagedCookie(bytes) == FileWith(Utf8Encode(Utf8Decode(bytes).text))

\* if cookie_path and os.path.exists(cookie_path): os.remove(cookie_path)
RemoveCookie_Kept(path, file) == file

RemoveCookie(path, file) ==
    IF path # NoPath /\ file.exists THEN NoFile ELSE file

----------------------------------------------------------------------------
(* download_progress_hook.  An event d is the dictionary yt-dlp passes:   *)
(* a total of Absent is a missing key, a total of NoneVal is None.        *)

Absent == -1
NoneVal == -2

\* d.get(key, 0)
Get0(v) == IF v = Absent THEN 0 ELSE v

\* a or b, on values that are None or integers
Or(a, b) == IF a = NoneVal \/ a = 0 THEN b ELSE a

\* total = d.get('total_bytes', 0) or d.get('total_bytes_estimate', 0)
Total(d) == Or(Get0(d.total_bytes), Get0(d.total_bytes_estimate))

\* total > 0 raises TypeError when total is None
HookRaises(d) == d.status = "downloading" /\ Total(d) = NoneVal

\* percentage = int((downloaded / total) * 100); for the byte counts of the
\* model the float product truncates to the integer quotient
Percentage(d) == (d.downloaded_bytes * 100) \div Total(d)

Min(a, b) == IF a <= b THEN a ELSE b

NoNumber == -1
Msg(level, text, number) == [level |-> level, text |-> text, number |-> number]
NoMsg == Msg("none", "", NoNumber)

\* whether the hook reaches lines 62-63 or 65-66
HookReports(d) ==
    \/ d.status = "downloading" /\ Total(d) > 0
    \/ d.status = "finished"

\* the value the hook leaves in the progress bar
HookProgress(bar, d) ==
    IF d.status = "downloading"
    THEN IF Total(d) > 0 THEN Min(Percentage(d), 100) ELSE bar
    ELSE IF d.status = "finished" THEN 100 ELSE bar

\* the message the hook leaves in the status placeholder
HookStatus_Always(status, d) ==
    IF d.status = "downloading"
    THEN IF Total(d) > 0 THEN Msg("info", "Downloading: %", Percentage(d))
         ELSE Msg("info", "Downloading...", NoNumber)
    ELSE Msg("success", "Download complete!", NoNumber)

HookStatus(status, d) ==
    IF d.status = "downloading"
    THEN IF Total(d) > 0 THEN Msg("info", "Downloading: %", Percentage(d))
         ELSE status
    ELSE IF d.status = "finished"
         THEN Msg("success", "Download complete!", NoNumber)
         ELSE status

----------------------------------------------------------------------------
(* The inputs a run is given: widget values, progress events delivered by *)
(* the downloader, segment sequences returned by the transcriber.         *)

Urls == { << >>, << " " >>, << "\t", " " >>, << "u" >>, << " ", "u", " " >> }

\* "a", "e-acute" (two bytes), a byte that is never valid, a cut-off pair
Payloads == { << 97 >>, << 195, 169 >>, << 97, 255 >>, << 195 >> }

Uploads == { NoUpload } \cup { Upload(b) : b \in Payloads }

TotalValues == { Absent, NoneVal } \cup (0..MaxBytes)

Events ==
    [ status : { "downloading" },
      total_bytes : TotalValues,
      total_bytes_estimate : TotalValues,
      downloaded_bytes : 0..(MaxBytes + 1) ]
    \cup
    [ status : { "finished" },
      total_bytes : { MaxBytes },
      total_bytes_estimate : { Absent },
      downloaded_bytes : { MaxBytes } ]

Seg(start, text) == [start |-> start, text |-> text]

\* 0 s, 2.5 s, 125 s, 3600 s
SegmentStarts == { 0, 25, 1250, 36000 }

SegmentTexts ==
    { << >>, << " " >>, << "h", "i" >>, << " ", "h", "i", " " >>,
      << "\t", "a", " ", "b", "\n" >> }

Segments == { Seg(t, x) : t \in SegmentStarts, x \in SegmentTexts }

RECURSIVE SeqsUpTo(_, _)
SeqsUpTo(S, n) ==
    IF n = 0 THEN { << >> }
    ELSE LET shorter == SeqsUpTo(S, n - 1)
         IN  shorter \cup
             { Append(q, x) : q \in { r \in shorter : Len(r) = n - 1 }, x \in S }

\* the runs of the page as a whole
PageInputs ==
    [ urls |-> Urls,
      uploads |-> Uploads,
      saves |-> BOOLEAN,
      transcribes |-> BOOLEAN,
      stamps |-> BOOLEAN,
      events |-> Events,
      results |-> { << >>,
                    << Seg(0, << "h", "i" >>) >>,
                    << Seg(0, << " ", "h", "i" >>), Seg(25, << " " >>) >> } ]

\* runs that differ in their cookie upload only
CookieInputs ==
    [ urls |-> { << "u" >> },
      uploads |-> { NoUpload, Upload(<< 97 >>), Upload(<< 195, 169 >>) },
      saves |-> { TRUE },
      transcribes |-> BOOLEAN,
      stamps |-> { FALSE },
      events |-> { e \in Events : e.status = "finished" },
      results |-> { << >> } ]

\* runs that differ in what the transcriber returns
TranscriptInputs ==
    [ urls |-> { << "u" >> },
      uploads |-> { NoUpload },
      saves |-> { TRUE },
      transcribes |-> { TRUE },
      stamps |-> BOOLEAN,
      events |-> { e \in Events : e.status = "finished" },
      results |-> SeqsUpTo(Segments, MaxSegs) ]

----------------------------------------------------------------------------
(* The state after construction: no button pressed yet, an empty          *)
(* working directory.                                                     *)

NoCalls == [extract_info |-> 0, download |-> 0, load_model |-> 0, transcribe |-> 0]
NoBar == -1
NoOutput == [displayed |-> FALSE, offered |-> FALSE, text |-> << >>]

Ended == { "rejected", "crashed", "dl_failed", "tr_failed", "complete" }

InitWith(S) ==
    /\ sessions = S
    /\ pc = [s \in S |-> "idle"]
    /\ url = [s \in S |-> << >>]
    /\ cookie_file = [s \in S |-> NoUpload]
    /\ save_audio = [s \in S |-> TRUE]
    /\ do_transcribe = [s \in S |-> TRUE]
    /\ include_timestamps = [s \in S |-> FALSE]
    /\ cookie_path = [s \in S |-> NoPath]
    /\ progress_bar = [s \in S |-> NoBar]
    /\ status_placeholder = [s \in S |-> NoMsg]
    /\ error_message = [s \in S |-> ""]
    /\ progress_reported = [s \in S |-> FALSE]
    /\ result = [s \in S |-> << >>]
    /\ transcript_text = [s \in S |-> << >>]
    /\ transcript_output = [s \in S |-> NoOutput]
    /\ calls = [s \in S |-> NoCalls]
    /\ disk_cookie = NoFile
    /\ disk_mp3 = FALSE

Init == InitWith({1})

InitOverlap == \E S \in { {1}, {1, 2} } : InitWith(S)

----------------------------------------------------------------------------
(* main(), lines 28-31: the button is pressed. A new run starts from the  *)
(* widget values; what the previous run displayed is gone.                *)

Trigger(s, I) ==
    /\ pc[s] \in { "idle" } \cup Ended
    /\ \E u \in I.urls, c \in I.uploads, sv \in I.saves,
          tr \in I.transcribes, st \in I.stamps :
        /\ url' = [url EXCEPT ![s] = u]
        /\ cookie_file' = [cookie_file EXCEPT ![s] = c]
        /\ save_audio' = [save_audio EXCEPT ![s] = sv]
        /\ do_transcribe' = [do_transcribe EXCEPT ![s] = tr]
        /\ include_timestamps' = [include_timestamps EXCEPT ![s] = st]
        /\ IF strip(u) = << >>
           THEN /\ error_message' =
                       [error_message EXCEPT ![s] = "Please enter a valid video URL."]
                /\ pc' = [pc EXCEPT ![s] = "rejected"]
           ELSE /\ error_message' = [error_message EXCEPT ![s] = ""]
                /\ pc' = [pc EXCEPT ![s] = "staging"]
    /\ cookie_path' = [cookie_path EXCEPT ![s] = NoPath]
    /\ progress_bar' = [progress_bar EXCEPT ![s] = NoBar]
    /\ status_placeholder' = [status_placeholder EXCEPT ![s] = NoMsg]
    /\ progress_reported' = [progress_reported EXCEPT ![s] = FALSE]
    /\ result' = [result EXCEPT ![s] = << >>]
    /\ transcript_text' = [transcript_text EXCEPT ![s] = << >>]
    /\ transcript_output' = [transcript_output EXCEPT ![s] = NoOutput]
    /\ calls' = [calls EXCEPT ![s] = NoCalls]
    /\ UNCHANGED << sessions, disk >>

(* lines 44-54: the cookie upload is written to the fixed path, then the  *)
(* status placeholder and the progress bar are created. open(..., 'w')    *)
(* creates or truncates the file before the payload is decoded; a payload *)
(* that is not UTF-8 raises out of main() and leaves the file empty.      *)
StageCookie(s) ==
    /\ pc[s] = "staging"
    /\ IF cookie_file[s].present /\ ~Utf8Decode(cookie_file[s].bytes).ok
       THEN /\ disk_cookie' = FileWith(<< >>)
            /\ cookie_path' = [cookie_path EXCEPT ![s] = CookieTemp]
            /\ error_message' = [error_message EXCEPT ![s] = "UnicodeDecodeError"]
            /\ pc' = [pc EXCEPT ![s] = "crashed"]
            /\ UNCHANGED << progress_bar, status_placeholder >>
       ELSE /\ IF cookie_file[s].present
               THEN /\ disk_cookie' = StagedCookie(cookie_file[s].bytes)
                    /\ cookie_path' = [cookie_path EXCEPT ![s] = CookieTemp]
               ELSE UNCHANGED << disk_cookie, cookie_path >>
            /\ progress_bar' = [progress_bar EXCEPT ![s] = 0]
            /\ pc' = [pc EXCEPT ![s] = "extracting"]
            /\ UNCHANGED << status_placeholder, error_message >>
    /\ UNCHANGED << sessions, progress_reported, result, inputs,
                    transcript_text, transcript_output, calls, disk_mp3 >>

Called(s, what) == [calls EXCEPT ![s][what] = @ + 1]

(* lines 71-77: extract_info and prepare_filename return, the status      *)
(* becomes "Downloading audio..." and ydl.download is entered.            *)
ExtractInfo(s) ==
    /\ pc[s] = "extracting"
    /\ calls' = [calls EXCEPT ![s].extract_info = @ + 1, ![s].download = @ + 1]
    /\ status_placeholder' =
           [status_placeholder EXCEPT ![s] = Msg("info", "Downloading audio...", NoNumber)]
    /\ pc' = [pc EXCEPT ![s] = "downloading"]
    /\ UNCHANGED << sessions, progress_reported, result, inputs, cookie_path,
                    progress_bar, error_message, transcript_text,
                    transcript_output, disk >>

(* line 72 raises: control passes to the handler of line 78 *)
ExtractInfoRaises(s) ==
    /\ pc[s] = "extracting"
    /\ calls' = Called(s, "extract_info")
    /\ pc' = [pc EXCEPT ![s] = "dl_except"]
    /\ UNCHANGED << sessions, progress_reported, result, inputs, cookie_path,
                    ui, transcript_text, disk >>

(* lines 56-66: the downloader delivers a progress event during           *)
(* ydl.download. An exception of the hook propagates out of ydl.download. *)
ProgressEvent(s, events) ==
    /\ pc[s] = "downloading"
    /\ \E d \in events :
        /\ progress_reported' = [progress_reported EXCEPT ![s] = HookReports(d)]
        /\ IF HookRaises(d)
           THEN /\ pc' = [pc EXCEPT ![s] = "dl_except"]
                /\ UNCHANGED << progress_bar, status_placeholder >>
           ELSE /\ progress_bar' =
                       [progress_bar EXCEPT ![s] = HookProgress(progress_bar[s], d)]
                /\ status_placeholder' =
                       [status_placeholder EXCEPT ![s] =
                            HookStatus(status_placeholder[s], d)]
                /\ pc' = pc
    /\ UNCHANGED << sessions, result, inputs, cookie_path, error_message,
                    transcript_text, transcript_output, calls, disk >>

(* line 77 returns: the audio artifact is on disk *)
DownloadReturns(s) ==
    /\ pc[s] = "downloading"
    /\ disk_mp3' = TRUE
    /\ pc' = [pc EXCEPT ![s] = "downloaded"]
    /\ UNCHANGED << sessions, progress_reported, result, inputs, cookie_path,
                    ui, transcript_text, calls, disk_cookie >>

(* line 77 raises *)
DownloadRaises(s) ==
    /\ pc[s] = "downloading"
    /\ pc' = [pc EXCEPT ![s] = "dl_except"]
    /\ UNCHANGED << sessions, progress_reported, result, inputs, cookie_path,
                    ui, transcript_text, calls, disk >>

(* line 79 *)
SurfaceDownloadError_CookieRemovedFirst(s) ==
    /\ pc[s] = "dl_except"
    /\ disk_cookie' = RemoveCookie(cookie_path[s], disk_cookie)
    /\ error_message' = [error_message EXCEPT ![s] = "Error while downloading"]
    /\ pc' = [pc EXCEPT ![s] = "dl_cleanup"]
    /\ UNCHANGED << sessions, progress_reported, result, inputs, cookie_path,
                    progress_bar, status_placeholder, transcript_text,
                    transcript_output, calls, disk_mp3 >>

SurfaceDownloadError(s) ==
    /\ pc[s] = "dl_except"
    /\ error_message' = [error_message EXCEPT ![s] = "Error while downloading"]
    /\ pc' = [pc EXCEPT ![s] = "dl_cleanup"]
    /\ UNCHANGED << sessions, progress_reported, result, inputs, cookie_path,
                    progress_bar, status_placeholder, transcript_text,
                    transcript_output, calls, disk >>

(* lines 81-83 *)
CleanupAfterDownloadError(s) ==
    /\ pc[s] = "dl_cleanup"
    /\ disk_cookie' = RemoveCookie(cookie_path[s], disk_cookie)
    /\ pc' = [pc EXCEPT ![s] = "dl_failed"]
    /\ UNCHANGED << sessions, progress_reported, result, inputs, cookie_path,
                    ui, transcript_text, calls, disk_mp3 >>

(* lines 86-95: transcription, if selected, starts by loading the model *)
BeginTranscription_Unconditional(s) ==
    /\ pc[s] = "downloaded"
    /\ transcript_text' = [transcript_text EXCEPT ![s] = << >>]
    /\ status_placeholder' =
           [status_placeholder EXCEPT ![s] = Msg("info", "Loading Whisper model...", NoNumber)]
    /\ calls' = Called(s, "load_model")
    /\ pc' = [pc EXCEPT ![s] = "loading"]
    /\ UNCHANGED << sessions, progress_reported, result, inputs, cookie_path,
                    progress_bar, error_message, transcript_output, disk >>

BeginTranscription(s) ==
    /\ pc[s] = "downloaded"
    /\ transcript_text' = [transcript_text EXCEPT ![s] = << >>]
    /\ IF do_transcribe[s]
       THEN /\ status_placeholder' =
                   [status_placeholder EXCEPT ![s] =
                        Msg("info", "Loading Whisper model...", NoNumber)]
            /\ calls' = Called(s, "load_model")
            /\ pc' = [pc EXCEPT ![s] = "loading"]
       ELSE /\ pc' = [pc EXCEPT ![s] = "finishing"]
            /\ UNCHANGED << status_placeholder, calls >>
    /\ UNCHANGED << sessions, progress_reported, result, inputs, cookie_path,
                    progress_bar, error_message, transcript_output, disk >>

(* lines 95-99: the model is loaded and model.transcribe is entered *)
LoadModel(s) ==
    /\ pc[s] = "loading"
    /\ status_placeholder' =
           [status_placeholder EXCEPT ![s] = Msg("info", "Transcribing audio...", NoNumber)]
    /\ calls' = Called(s, "transcribe")
    /\ pc' = [pc EXCEPT ![s] = "transcribing"]
    /\ UNCHANGED << sessions, progress_reported, result, inputs, cookie_path,
                    progress_bar, error_message, transcript_text,
                    transcript_output, disk >>

(* line 95 raises *)
LoadModelRaises(s) ==
    /\ pc[s] = "loading"
    /\ pc' = [pc EXCEPT ![s] = "tr_except"]
    /\ UNCHANGED << sessions, progress_reported, result, inputs, cookie_path,
                    ui, transcript_text, calls, disk >>

(* lines 99-123: model.transcribe returns, the transcript is assembled *)
Transcribe(s, results) ==
    /\ pc[s] = "transcribing"
    /\ \E segments \in results :
        /\ result' = [result EXCEPT ![s] = segments]
        /\ transcript_text' =
               [transcript_text EXCEPT ![s] = Assemble(segments, include_timestamps[s])]
    /\ pc' = [pc EXCEPT ![s] = "finishing"]
    /\ UNCHANGED << sessions, progress_reported, inputs, cookie_path, ui, calls,
                    disk >>

(* line 99 raises *)
TranscribeRaises(s) ==
    /\ pc[s] = "transcribing"
    /\ pc' = [pc EXCEPT ![s] = "tr_except"]
    /\ UNCHANGED << sessions, progress_reported, result, inputs, cookie_path,
                    ui, transcript_text, calls, disk >>

(* line 126 *)
SurfaceTranscribeError(s) ==
    /\ pc[s] = "tr_except"
    /\ error_message' = [error_message EXCEPT ![s] = "Error while transcribing"]
    /\ pc' = [pc EXCEPT ![s] = "tr_cleanup"]
    /\ UNCHANGED << sessions, progress_reported, result, inputs, cookie_path,
                    progress_bar, status_placeholder, transcript_text,
                    transcript_output, calls, disk >>

(* lines 127-129 *)
CleanupAfterTranscribeError(s) ==
    /\ pc[s] = "tr_cleanup"
    /\ disk_cookie' = RemoveCookie(cookie_path[s], disk_cookie)
    /\ pc' = [pc EXCEPT ![s] = "tr_failed"]
    /\ UNCHANGED << sessions, progress_reported, result, inputs, cookie_path,
                    ui, transcript_text, calls, disk_mp3 >>

(* lines 132-150: the audio is removed unless it is to be saved, the      *)
(* completion status is set, a non-empty transcript is shown and offered  *)
(* for download, the cookie file is removed.                              *)
Finish(s) ==
    /\ pc[s] = "finishing"
    /\ disk_mp3' = IF ~save_audio[s] /\ disk_mp3 THEN FALSE ELSE disk_mp3
    /\ status_placeholder' =
           [status_placeholder EXCEPT ![s] = Msg("success", "Processing complete!", NoNumber)]
    /\ transcript_output' =
           [transcript_output EXCEPT ![s] =
                IF transcript_text[s] # << >>
                THEN [displayed |-> TRUE, offered |-> TRUE, text |-> transcript_text[s]]
                ELSE NoOutput]
    /\ disk_cookie' = RemoveCookie(cookie_path[s], disk_cookie)
    /\ pc' = [pc EXCEPT ![s] = "complete"]
    /\ UNCHANGED << sessions, progress_reported, result, inputs, cookie_path,
                    progress_bar, error_message, transcript_text, calls >>

----------------------------------------------------------------------------

Next ==
    \/ \E s \in sessions : Trigger(s, PageInputs)
    \/ \E s \in sessions : StageCookie(s)
    \/ \E s \in sessions : ExtractInfo(s)
    \/ \E s \in sessions : ExtractInfoRaises(s)
    \/ \E s \in sessions : ProgressEvent(s, PageInputs.events)
    \/ \E s \in sessions : DownloadReturns(s)
    \/ \E s \in sessions : DownloadRaises(s)
    \/ \E s \in sessions : SurfaceDownloadError(s)
    \/ \E s \in sessions : CleanupAfterDownloadError(s)
    \/ \E s \in sessions : BeginTranscription(s)
    \/ \E s \in sessions : LoadModel(s)
    \/ \E s \in sessions : LoadModelRaises(s)
    \/ \E s \in sessions : Transcribe(s, PageInputs.results)
    \/ \E s \in sessions : TranscribeRaises(s)
    \/ \E s \in sessions : SurfaceTranscribeError(s)
    \/ \E s \in sessions : CleanupAfterTranscribeError(s)
    \/ \E s \in sessions : Finish(s)

NextOverlap ==
    \/ \E s \in sessions : Trigger(s, CookieInputs)
    \/ \E s \in sessions : StageCookie(s)
    \/ \E s \in sessions : ExtractInfo(s)
    \/ \E s \in sessions : ExtractInfoRaises(s)
    \/ \E s \in sessions : ProgressEvent(s, CookieInputs.events)
    \/ \E s \in sessions : DownloadReturns(s)
    \/ \E s \in sessions : DownloadRaises(s)
    \/ \E s \in sessions : SurfaceDownloadError(s)
    \/ \E s \in sessions : CleanupAfterDownloadError(s)
    \/ \E s \in sessions : BeginTranscription(s)
    \/ \E s \in sessions : LoadModel(s)
    \/ \E s \in sessions : LoadModelRaises(s)
    \/ \E s \in sessions : Transcribe(s, CookieInputs.results)
    \/ \E s \in sessions : TranscribeRaises(s)
    \/ \E s \in sessions : SurfaceTranscribeError(s)
    \/ \E s \in sessions : CleanupAfterTranscribeError(s)
    \/ \E s \in sessions : Finish(s)

NextTranscript ==
    \/ \E s \in sessions : Trigger(s, TranscriptInputs)
    \/ \E s \in sessions : StageCookie(s)
    \/ \E s \in sessions : ExtractInfo(s)
    \/ \E s \in sessions : ExtractInfoRaises(s)
    \/ \E s \in sessions : ProgressEvent(s, TranscriptInputs.events)
    \/ \E s \in sessions : DownloadReturns(s)
    \/ \E s \in sessions : DownloadRaises(s)
    \/ \E s \in sessions : SurfaceDownloadError(s)
    \/ \E s \in sessions : CleanupAfterDownloadError(s)
    \/ \E s \in sessions : BeginTranscription(s)
    \/ \E s \in sessions : LoadModel(s)
    \/ \E s \in sessions : LoadModelRaises(s)
    \/ \E s \in sessions : Transcribe(s, TranscriptInputs.results)
    \/ \E s \in sessions : TranscribeRaises(s)
    \/ \E s \in sessions : SurfaceTranscribeError(s)
    \/ \E s \in sessions : CleanupAfterTranscribeError(s)
    \/ \E s \in sessions : Finish(s)

\* one run at a time
Spec == Init /\ [][Next]_vars

\* one run at a time, or two sessions whose runs may overlap
OverlapSpec == InitOverlap /\ [][NextOverlap]_vars

\* one run at a time, over every bounded transcriber result
TranscriptSpec == Init /\ [][NextTranscript]_vars

----------------------------------------------------------------------------
(* Properties *)

CookieSupplied(s) == cookie_file[s].present

DownloadErrorShown(s) == error_message[s] = "Error while downloading"
TranscribeErrorShown(s) == error_message[s] = "Error while transcribing"

\* C1: a run that was given a cookie payload and has ended by normal
\* completion, by a downloader failure or by a transcriber failure leaves
\* no downloads/cookies_temp.txt on disk.
C1_CookieFileGoneAfterRun ==
    \A s \in sessions :
        (CookieSupplied(s) /\ pc[s] \in { "complete", "dl_failed", "tr_failed" })
            => ~disk_cookie.exists

C1_Witness ==
    \E s \in sessions :
        /\ pc[s] = "tr_failed"
        /\ CookieSupplied(s)
        /\ cookie_path[s] = CookieTemp
        /\ ~disk_cookie.exists

\* C2, as claimed: on a failure path, once the error message is surfaced
\* the cookie file has already been removed.
C2_RemovedBeforeErrorSurfaced ==
    \A s \in sessions :
        (CookieSupplied(s) /\ (DownloadErrorShown(s) \/ TranscribeErrorShown(s)))
            => ~disk_cookie.exists

\* C2, amended: on both failure paths the error message is surfaced while
\* the cookie file is still on disk, and the file is removed after that,
\* before the run returns.
C2_ErrorSurfacedThenCookieRemoved ==
    \A s \in sessions :
        cookie_path[s] = CookieTemp =>
            /\ pc[s] \in { "dl_except", "tr_except" }
                   => error_message[s] = "" /\ disk_cookie.exists
            /\ pc[s] = "dl_cleanup" => DownloadErrorShown(s) /\ disk_cookie.exists
            /\ pc[s] = "tr_cleanup" => TranscribeErrorShown(s) /\ disk_cookie.exists
            /\ pc[s] = "dl_failed" => DownloadErrorShown(s) /\ ~disk_cookie.exists
            /\ pc[s] = "tr_failed" => TranscribeErrorShown(s) /\ ~disk_cookie.exists

C2_Witness ==
    \E s \in sessions :
        /\ pc[s] = "dl_failed"
        /\ cookie_path[s] = CookieTemp
        /\ DownloadErrorShown(s)
        /\ ~disk_cookie.exists

\* C3: a run whose download succeeded and whose "save audio" option is
\* off leaves no audio artifact when it has ended, also when it ends by a
\* transcriber failure; a run whose "save audio" option is on never
\* deletes the artifact.
C3_AudioDeletedUnlessSaved ==
    /\ [](\A s \in sessions :
            (pc[s] \in { "complete", "tr_failed" } /\ ~save_audio[s]) => ~disk_mp3)
    /\ [][\A s \in sessions :
            (pc[s] \notin ({ "idle" } \cup Ended) /\ pc'[s] # pc[s]
                /\ save_audio[s] /\ disk_mp3) => disk_mp3']_vars

Blank(str) == \A i \in 1..Len(str) : str[i] \in Whitespace

\* C4: a button press with an empty or whitespace-only URL is rejected
\* with an error message; the downloader and the transcriber are not
\* invoked, no cookie file is written, no progress or status is reported.
C4_BlankUrlRejected ==
    /\ [](\A s \in sessions :
            (pc[s] # "idle" /\ Blank(url[s])) =>
                /\ pc[s] = "rejected"
                /\ error_message[s] = "Please enter a valid video URL."
                /\ calls[s] = NoCalls
                /\ cookie_path[s] = NoPath
                /\ progress_bar[s] = NoBar
                /\ status_placeholder[s] = NoMsg
                /\ ~progress_reported[s])
    /\ [][\A s \in sessions :
            Blank(url'[s]) => disk_cookie' = disk_cookie]_vars

C4_Witness ==
    \E s \in sessions :
        /\ pc[s] = "rejected"
        /\ url[s] = << "\t", " " >>
        /\ error_message[s] = "Please enter a valid video URL."

\* C5: within one run the percentage shown never drops below a
\* percentage shown earlier, whatever events the downloader delivers.
C5_PercentageNeverDrops ==
    [][\A s \in sessions :
          (pc[s] = "downloading" /\ pc'[s] = "downloading")
              => progress_bar'[s] >= progress_bar[s]]_vars

\* floor(downloaded / total * 100), total > 0
FloorPercent(downloaded, total) ==
    CHOOSE q \in 0..(100 * (downloaded + 1)) :
        q * total <= 100 * downloaded /\ 100 * downloaded < (q + 1) * total

Clamp(n) == IF n < 0 THEN 0 ELSE IF n > 100 THEN 100 ELSE n

DownloadingEvents == { d \in Events : d.status = "downloading" /\ ~HookRaises(d) }

\* C6: on a downloading event with total > 0 the progress indicator and
\* the status message both show floor(downloaded / total * 100) clamped
\* to 0..100.
C6_ClampedPercentageSurfaced ==
    [][\A s \in sessions : \A d \in DownloadingEvents :
          (pc[s] = "downloading" /\ Total(d) > 0 /\ ProgressEvent(s, { d })) =>
              LET shown == Clamp(FloorPercent(d.downloaded_bytes, Total(d)))
              IN  /\ progress_bar'[s] = shown
                  /\ status_placeholder'[s].number = shown]_vars

UnknownTotalEvents == { d \in Events : d.status = "downloading" /\ ~(Total(d) > 0) }

\* C7, as claimed: on a downloading event whose total is unknown or zero
\* the percentage is left unchanged and a status message is surfaced.
C7_StatusStillSurfaced ==
    [][\A s \in sessions : \A d \in UnknownTotalEvents :
          (pc[s] = "downloading" /\ ~HookRaises(d) /\ ProgressEvent(s, { d })) =>
              /\ progress_bar'[s] = progress_bar[s]
              /\ progress_reported'[s]]_vars

\* C7, amended: on a downloading event whose total is unknown or zero
\* the percentage is left unchanged and no status message is surfaced:
\* the message shown before the event stays.
C7_NothingSurfaced ==
    [][\A s \in sessions :
          (pc[s] = "downloading" /\ ProgressEvent(s, UnknownTotalEvents)) =>
              /\ progress_bar'[s] = progress_bar[s]
              /\ status_placeholder'[s] = status_placeholder[s]
              /\ ~progress_reported'[s]]_vars

C7_Witness ==
    \E s \in sessions :
        /\ pc[s] = "downloading"
        /\ ~progress_reported[s]
        /\ progress_bar[s] = 50
        /\ status_placeholder[s] = Msg("info", "Downloading: %", 50)

DownloadFailed(s) == pc[s] \in { "dl_except", "dl_cleanup", "dl_failed" }
TranscribeFailed(s) == pc[s] \in { "tr_except", "tr_cleanup", "tr_failed" }

DownloadCompleted(s) ==
    /\ calls[s].download = 1
    /\ pc[s] \in { "downloaded", "loading", "transcribing", "finishing", "complete",
                   "tr_except", "tr_cleanup", "tr_failed" }

\* C8: a failure ends its run without partial output. After a downloader
\* error the transcriber is not invoked; no external call is made twice in
\* a run; after a downloader or transcriber error no transcript is shown
\* or offered and the status is never "Processing complete!"; the
\* transcriber is invoked only after the download has completed and only
\* if transcription was requested.
C8_FailureIsTerminal ==
    \A s \in sessions :
        /\ \A what \in DOMAIN NoCalls : calls[s][what] <= 1
        /\ DownloadFailed(s) =>
               calls[s].load_model = 0 /\ calls[s].transcribe = 0
        /\ (DownloadFailed(s) \/ TranscribeFailed(s)) =>
               /\ ~transcript_output[s].displayed
               /\ ~transcript_output[s].offered
               /\ status_placeholder[s].text # "Processing complete!"
        /\ (DownloadErrorShown(s) \/ TranscribeErrorShown(s)) =>
               (DownloadFailed(s) \/ TranscribeFailed(s))
        /\ (calls[s].load_model > 0 \/ calls[s].transcribe > 0) =>
               do_transcribe[s] /\ DownloadCompleted(s)

C8_Witness ==
    \E s \in sessions :
        /\ pc[s] = "dl_failed"
        /\ do_transcribe[s]
        /\ calls[s].download = 1
        /\ calls[s].transcribe = 0
        /\ DownloadErrorShown(s)

InDownloader(s) == pc[s] \in { "extracting", "downloading" }

\* C9: with one run at a time the staged cookie file holds the run's own
\* payload during the whole downloader call; a file that is missing or
\* holds something else while the downloader is in progress occurs only
\* with two overlapping runs, where it is reachable.
C9_OwnPayloadUnlessOverlap ==
    \A s \in sessions :
        (InDownloader(s) /\ CookieSupplied(s)) =>
            \/ disk_cookie = FileWith(cookie_file[s].bytes)
            \/ Cardinality(sessions) > 1

\* a run's downloader in progress over the other run's payload
C9_Witness ==
    \E s \in sessions : \E r \in sessions \ { s } :
        /\ pc[s] = "downloading"
        /\ CookieSupplied(s)
        /\ CookieSupplied(r)
        /\ disk_cookie = FileWith(cookie_file[r].bytes)
        /\ cookie_file[r].bytes # cookie_file[s].bytes

\* a run's downloader in progress after the other run's cleanup (reachable
\* under OverlapSpec as well)
C9_DeletedUnderDownloader ==
    \E s \in sessions :
        /\ pc[s] = "downloading"
        /\ CookieSupplied(s)
        /\ ~disk_cookie.exists

NewlineAt(str) == { i \in 1..Len(str) : str[i] = "\n" }

\* the pieces of str between its newlines, in order
SplitLines(str) ==
    LET cuts == NewlineAt(str)
        n == Cardinality(cuts)
        Cut(k) == IF k = 0 THEN 0
                  ELSE IF k = n + 1 THEN Len(str) + 1
                  ELSE CHOOSE i \in cuts : Cardinality({ j \in cuts : j < i }) = k - 1
    IN  [k \in 1..(n + 1) |-> SubSeq(str, Cut(k - 1) + 1, Cut(k) - 1)]

\* piece is text without its surrounding whitespace
IsTrimOf(piece, text) ==
    /\ piece # << >> => piece[1] \notin Whitespace /\ piece[Len(piece)] \notin Whitespace
    /\ \E i \in 0..Len(text) :
          /\ i + Len(piece) <= Len(text)
          /\ \A k \in 1..i : text[k] \in Whitespace
          /\ \A k \in 1..Len(piece) : text[i + k] = piece[k]
          /\ \A k \in (i + Len(piece) + 1)..Len(text) : text[k] \in Whitespace

TwoDigits(n) ==
    IF n < 100 THEN << DigitChars[(n \div 10) + 1], DigitChars[(n % 10) + 1] >>
    ELSE Decimal(n)

\* "[MM:SS] ", MM = floor(start / 60), SS = floor(start mod 60), start in tenths
StampPrefix(tenths) ==
    << "[" >> \o TwoDigits(tenths \div 600) \o << ":" >>
              \o TwoDigits((tenths \div 10) % 60) \o << "]", " " >>

IsLineOf(line, seg, stamps) ==
    IF stamps
    THEN /\ Len(line) >= Len(StampPrefix(seg.start))
         /\ SubSeq(line, 1, Len(StampPrefix(seg.start))) = StampPrefix(seg.start)
         /\ IsTrimOf(SubSeq(line, Len(StampPrefix(seg.start)) + 1, Len(line)), seg.text)
    ELSE IsTrimOf(line, seg.text)

\* C10: the transcript has one line per segment, in the order of the
\* segments; each line is the trimmed segment text, prefixed with
\* "[MM:SS] " exactly when timestamps are included; the lines are joined by
\* single newlines with none at the end; no segments give the empty string.
C10_TranscriptAssembled ==
    \A s \in sessions :
        (pc[s] \in { "finishing", "complete" } /\ do_transcribe[s]) =>
            IF result[s] = << >>
            THEN transcript_text[s] = << >>
            ELSE LET lines == SplitLines(transcript_text[s])
                 IN  /\ Len(lines) = Len(result[s])
                     /\ \A i \in 1..Len(lines) :
                            IsLineOf(lines[i], result[s][i], include_timestamps[s])

C10_Witness ==
    \E s \in sessions :
        /\ pc[s] = "complete"
        /\ include_timestamps[s]
        /\ result[s] = << Seg(1250, << " ", "h", "i", " " >>), Seg(36000, << >>) >>
        /\ transcript_text[s] =
               << "[", "0", "2", ":", "0", "5", "]", " ", "h", "i", "\n",
                  "[", "6", "0", ":", "0", "0", "]", " " >>

====
